---- MODULE Spec2Model ----
(***************************************************************************)
(* Model of YahooFinance/yf_utilities.py: the incremental update of the    *)
(* wide close-price table (update_historical_data, load_historical_data)   *)
(* and the returns report (get_historical_returns).                        *)
(*                                                                         *)
(* Dates are day numbers counted from 2000-01-01 (day 0), the date the     *)
(* code uses as the start of an INDEX ticker's history. A DataFrame is a   *)
(* record [cols, rows]: cols is the sequence of ticker columns and rows    *)
(* the sequence of rows, each [Date, v] with v the cells of the row.       *)
(***************************************************************************)
EXTENDS Integers, Sequences, FiniteSets, TLC

\* ---------------------------------------------------------------- bounds
\* The last day the clock reaches: update runs happen on the days 1 .. MaxDay
\* (2000-01-02 onwards), the quote source has closes from FirstDay on.
MaxDay == 3

\* ------------------------------------------------------ the environment
\* The ticker list handed to every call (the caller's order).
tickers == <<"A", "B", "M">>

\* What Yahoo reports as quoteType for each ticker when the lookup works
\* ("C" is a ticker only the report is asked for, never the update).
quoteType == [A |-> "ETF", B |-> "INDEX", M |-> "MONEYMARKET", C |-> "ETF"]

\* "2000-01-01", the start of an INDEX ticker's full history.
IndexStart == 0

\* The earliest day the quote source has a close for.
FirstDay == IndexStart

\* A cell without a value (NaN in the frame, an empty field in the CSV).
NaN == 0 - 1

\* last_date = None
None == 0 - 1000

\* The close the quote source publishes for a ticker on a day (positive).
Close(t, d) == (IF t = "A" THEN 10 ELSE IF t = "B" THEN 20 ELSE 30) + d

Range(s) == {s[i] : i \in DOMAIN s}

Max(S) == CHOOSE x \in S : \A y \in S : y <= x

Min(S) == CHOOSE x \in S : \A y \in S : x <= y

\* ---------------------------------------------------------- DataFrames
\* pd.DataFrame()
EmptyFrame == [cols |-> <<>>, rows |-> <<>>]

\* DataFrame.empty
IsEmpty(df) == Len(df.rows) = 0

Dates(df) == {df.rows[i].Date : i \in DOMAIN df.rows}

\* The row of df holding date d (the first one, should there be several).
RowAt(df, d) == df.rows[Min({i \in DOMAIN df.rows : df.rows[i].Date = d})]

\* Index.union of unique indexes / the aligned index pd.DataFrame(dict of
\* Series) builds: the sorted union of the dates.
RECURSIVE SortedIndex(_)
SortedIndex(S) ==
    IF S = {} THEN <<>> ELSE <<Min(S)>> \o SortedIndex(S \ {Min(S)})

\* Inserts row r behind every row of the sorted sequence whose Date is <= its own.
RECURSIVE InsertRow(_, _)
InsertRow(r, rows) ==
    IF rows = <<>> THEN <<r>>
    ELSE IF rows[Len(rows)].Date <= r.Date THEN Append(rows, r)
    ELSE Append(InsertRow(r, SubSeq(rows, 1, Len(rows) - 1)), rows[Len(rows)])

\* rows.sort_values(by=['Date']): a stable sort of the rows by Date.
RECURSIVE SortRows(_)
SortRows(rows) ==
    IF rows = <<>> THEN <<>>
    ELSE InsertRow(rows[Len(rows)], SortRows(SubSeq(rows, 1, Len(rows) - 1)))

sort_values(df) == [df EXCEPT !.rows = SortRows(df.rows)]

\* df.reindex(columns=['Date'] + columns): the columns in the given order, a
\* column the frame lacks is all NaN, a column not named is dropped.
reindex(df, columns) ==
    [cols |-> columns,
     rows |-> [i \in DOMAIN df.rows |->
                 [Date |-> df.rows[i].Date,
                  v    |-> [c \in Range(columns) |->
                              IF c \in Range(df.cols) THEN df.rows[i].v[c] ELSE NaN]]]]

\* df[['Date'] + columns] for columns the frame has.
SelectCols(df, columns) ==
    [cols |-> columns,
     rows |-> [i \in DOMAIN df.rows |->
                 [Date |-> df.rows[i].Date,
                  v    |-> [c \in Range(columns) |-> df.rows[i].v[c]]]]]

\* df[col].fillna(0.0) for every ticker column.
fillna(df) ==
    [df EXCEPT !.rows =
        [i \in DOMAIN df.rows |->
            [df.rows[i] EXCEPT !.v =
                [c \in DOMAIN df.rows[i].v |->
                    IF df.rows[i].v[c] = NaN THEN 0 ELSE df.rows[i].v[c]]]]]

\* The cell of df at (d, c), NaN when the frame has no such row or column.
Cell(df, d, c) ==
    IF d \in Dates(df) /\ c \in Range(df.cols) THEN RowAt(df, d).v[c] ELSE NaN

\* combine_first as a row-wise overwrite: a date new has takes new's whole
\* row, the other dates take old's.
combine_first_rows(new, old) ==
    LET idx  == SortedIndex(Dates(new) \cup Dates(old))
        cols == new.cols \o SelectSeq(old.cols, LAMBDA c : c \notin Range(new.cols))
    IN  [cols |-> cols,
         rows |-> [i \in DOMAIN idx |->
                     [Date |-> idx[i],
                      v    |-> [c \in Range(cols) |->
                                  IF idx[i] \in Dates(new)
                                  THEN Cell(new, idx[i], c)
                                  ELSE Cell(old, idx[i], c)]]]]

\* combine_first as a concatenation: new's rows followed by old's.
combine_first_concat(new, old) ==
    LET cols == new.cols \o SelectSeq(old.cols, LAMBDA c : c \notin Range(new.cols))
    IN  [cols |-> cols,
         rows |-> reindex(new, cols).rows \o reindex(old, cols).rows]

\* new.combine_first(old): over the union of the indexes and of the columns,
\* new's value where new has one, else old's.
combine_first(new, old) ==
    LET idx  == SortedIndex(Dates(new) \cup Dates(old))
        cols == new.cols \o SelectSeq(old.cols, LAMBDA c : c \notin Range(new.cols))
    IN  [cols |-> cols,
         rows |-> [i \in DOMAIN idx |->
                     [Date |-> idx[i],
                      v    |-> [c \in Range(cols) |->
                                  IF Cell(new, idx[i], c) # NaN
                                  THEN Cell(new, idx[i], c)
                                  ELSE Cell(old, idx[i], c)]]]]

\* pd.DataFrame(series_dict): one column per fetched ticker (in the order the
\* tickers were fetched), the rows aligned on the union of the series' dates.
\* fetched maps a ticker to its Series, a function from dates to closes.
DataFrameOf(order, fetched) ==
    LET cols == SelectSeq(order, LAMBDA t : t \in DOMAIN fetched)
        idx  == SortedIndex(UNION {DOMAIN fetched[t] : t \in DOMAIN fetched})
    IN  [cols |-> cols,
         rows |-> [i \in DOMAIN idx |->
                     [Date |-> idx[i],
                      v    |-> [c \in Range(cols) |->
                                  IF idx[i] \in DOMAIN fetched[c]
                                  THEN fetched[c][idx[i]] ELSE NaN]]]]

\* ------------------------------------------------------ Type Classifier
\* ticker_types.get(t)
get(types, t) == IF t \in DOMAIN types THEN types[t] ELSE "None"

\* The tickers whose quoteType lookup may raise. A lookup that raises yields
\* "UNKNOWN", which every caller treats as it treats "ETF".
Flaky == {"M"}

\* The dictionaries _get_ticker_types can return for the tickers in S: the
\* quoteType Yahoo reports, or "UNKNOWN" for a ticker whose lookup raised.
TickerTypes(S) ==
    {f \in [S -> {"ETF", "INDEX", "MONEYMARKET", "UNKNOWN"}] :
        \A t \in S : f[t] = quoteType[t] \/ (t \in Flaky /\ f[t] = "UNKNOWN")}

\* [t for t in tickers if ticker_types.get(t) != "MONEYMARKET"]
NonMoneyMarket(list, types) ==
    SelectSeq(list, LAMBDA t : get(types, t) # "MONEYMARKET")

\* ------------------------------------------------------ HistoricalStore
\* load_historical_data without the restriction to the requested tickers of
\* lines 348-352: every column its own lookup does not call MONEYMARKET.
load_historical_data_all(file, requested, types) ==
    IF ~file.exists THEN EmptyFrame
    ELSE IF IsEmpty(file.frame) THEN EmptyFrame
    ELSE IF file.frame.cols = <<>> THEN EmptyFrame
    ELSE fillna(sort_values(SelectCols(file.frame,
                                       NonMoneyMarket(file.frame.cols, types))))

\* The frame load_historical_data(requested) returns for the CSV file `file`
\* when the quoteType lookup for the file's columns answers `types`.
load_historical_data(file, requested, types) ==
    IF ~file.exists THEN EmptyFrame
    ELSE IF IsEmpty(file.frame) THEN EmptyFrame
    ELSE IF file.frame.cols = <<>> THEN EmptyFrame
    ELSE LET non_moneymarket_cols == NonMoneyMarket(file.frame.cols, types)
             requested_non_moneymarket_tickers == NonMoneyMarket(requested, types)
             final_cols == SelectSeq(requested_non_moneymarket_tickers,
                                     LAMBDA c : c \in Range(non_moneymarket_cols))
         IN  fillna(sort_values(SelectCols(file.frame, final_cols)))

\* -------------------------------------------------------- UpdatePlanner
\* LastDate with min() in the place of max().
LastDate_min(existing_data, ticker) ==
    IF ~IsEmpty(existing_data) /\ ticker \in Range(existing_data.cols)
    THEN LET kept == {i \in DOMAIN existing_data.rows :
                         existing_data.rows[i].v[ticker] # NaN}
         IN  IF kept = {} THEN None
             ELSE Min({existing_data.rows[i].Date : i \in kept})
    ELSE None

\* existing_data.dropna(subset=[ticker])['Date'].max(), or None when the
\* frame is empty or lacks the ticker's column.
LastDate(existing_data, ticker) ==
    IF ~IsEmpty(existing_data) /\ ticker \in Range(existing_data.cols)
    THEN LET kept == {i \in DOMAIN existing_data.rows :
                         existing_data.rows[i].v[ticker] # NaN}
         IN  IF kept = {} THEN None
             ELSE Max({existing_data.rows[i].Date : i \in kept})
    ELSE None

NoRequest(why) == [kind |-> why, start |-> None, end |-> None]

\* The yf.download call one iteration of the loop over filtered_tickers makes
\* for a ticker whose last stored date is last_date: kind "incremental"
\* (start, end), kind "full" (start 2000-01-01 for an INDEX, else period
\* "max" and no start; end), or no call at all ("fresh", "inverted").
PlanFor(type, last_date, today, force_update) ==
    IF last_date # None
    THEN IF today - last_date <= 1 /\ ~force_update THEN NoRequest("fresh")
         ELSE LET start_date == last_date + 1
                  end_date   == today - 1
              IN  IF start_date > end_date THEN NoRequest("inverted")
                  ELSE [kind |-> "incremental", start |-> start_date, end |-> end_date]
    ELSE [kind  |-> "full",
          start |-> IF type = "INDEX" THEN IndexStart ELSE None,
          end   |-> today]

IsRequest(p) == p.kind \in {"incremental", "full"}

\* ---------------------------------------------------------- Quote Source
\* The days a request asks for: from its start (the first day the source
\* has, when it names none) through its end.
Window(p) ==
    {d \in FirstDay .. p.end : p.start = None \/ d >= p.start}

\* What yf.download can answer to request p for ticker t: the closes of the
\* asked days (the end day itself among them only if the source reads `end`
\* as inclusive), or nothing (no rows, or an exception: either way the ticker
\* gets no entry in newly_fetched_close_series).
Answers(t, p, inclusive) ==
    {[d \in {e \in Window(p) : inclusive \/ e < p.end} |-> Close(t, d)],
     [d \in {} |-> 0]}

\* The values newly_fetched_close_series can have after the loop has run
\* over the first n tickers of the list, given their requests.
RECURSIVE Fetched(_, _, _, _)
Fetched(list, plan, n, inclusive) ==
    IF n = 0 THEN {[t \in {} |-> 0]}
    ELSE LET t == list[n]
             before == Fetched(list, plan, n - 1, inclusive)
         IN  IF ~IsRequest(plan[t]) THEN before
             ELSE {IF DOMAIN a = {} THEN f
                   ELSE [u \in DOMAIN f \cup {t} |-> IF u = t THEN a ELSE f[u]] :
                     f \in before, a \in Answers(t, plan[t], inclusive)}

\* ------------------------------------------------------------- the merge
\* The merge without combine_first: the fetched data alone is written.
Combined_new_only(existing_data, filtered_tickers, fetched) ==
    reindex(sort_values(DataFrameOf(filtered_tickers, fetched)), tickers)

\* Lines 273-298: the frame written to the CSV file from the loaded frame
\* and the fetched series.
Combined(existing_data, filtered_tickers, fetched) ==
    LET new_data_df == DataFrameOf(filtered_tickers, fetched)
        combined_data == IF ~IsEmpty(existing_data)
                         THEN combine_first(new_data_df, existing_data)
                         ELSE new_data_df
    IN  reindex(sort_values(combined_data), tickers)

\* -------------------------------------------------------------- calendar
\* Day numbers count from 2000-01-01; the civil date of a day number and
\* back, as Timestamp and DateOffset compute them (proleptic Gregorian).
EpochShift == 730425

\* [y, m, d] of day number n.
CivilOf(n) ==
    LET z   == n + EpochShift
        era == z \div 146097
        doe == z - era * 146097
        yoe == (doe - doe \div 1460 + doe \div 36524 - doe \div 146096) \div 365
        doy == doe - (365 * yoe + yoe \div 4 - yoe \div 100)
        mp  == (5 * doy + 2) \div 153
        m   == IF mp < 10 THEN mp + 3 ELSE mp - 9
    IN  [y |-> yoe + era * 400 + (IF m <= 2 THEN 1 ELSE 0),
         m |-> m,
         d |-> doy - (153 * mp + 2) \div 5 + 1]

\* The day number of the civil date y-m-d.
DayOf(y, m, d) ==
    LET yy  == IF m <= 2 THEN y - 1 ELSE y
        era == yy \div 400
        yoe == yy - era * 400
        doy == (153 * (IF m > 2 THEN m - 3 ELSE m + 9) + 2) \div 5 + d - 1
        doe == yoe * 365 + yoe \div 4 - yoe \div 100 + doy
    IN  era * 146097 + doe - EpochShift

IsLeap(y) == (y % 4 = 0 /\ y % 100 # 0) \/ y % 400 = 0

DaysInMonth(y, m) ==
    IF m = 2 THEN (IF IsLeap(y) THEN 29 ELSE 28)
    ELSE IF m \in {4, 6, 9, 11} THEN 30 ELSE 31

\* date - DateOffset(months=k): the same day of the month k months earlier,
\* or that month's last day when it is shorter.
MinusMonths(n, k) ==
    LET c     == CivilOf(n)
        total == c.y * 12 + (c.m - 1) - k
        y     == total \div 12
        m     == (total % 12) + 1
        d     == IF c.d > DaysInMonth(y, m) THEN DaysInMonth(y, m) ELSE c.d
    IN  DayOf(y, m, d)

\* The DateOffset of a period label, in weeks and months; <<>> for a label
\* that is none of the calendar offsets.
OffsetOf(period_label) ==
    CASE period_label = "1w"  -> [weeks |-> 1, months |-> 0]
      [] period_label = "1mo" -> [weeks |-> 0, months |-> 1]
      [] period_label = "3mo" -> [weeks |-> 0, months |-> 3]
      [] period_label = "6mo" -> [weeks |-> 0, months |-> 6]
      [] period_label = "1y"  -> [weeks |-> 0, months |-> 12]
      [] period_label = "2y"  -> [weeks |-> 0, months |-> 24]
      [] period_label = "3y"  -> [weeks |-> 0, months |-> 36]
      [] period_label = "5y"  -> [weeks |-> 0, months |-> 60]
      [] period_label = "10y" -> [weeks |-> 0, months |-> 120]
      [] OTHER -> <<>>

\* end_date - offset
MinusOffset(n, offset) == MinusMonths(n, offset.months) - 7 * offset.weeks

\* ------------------------------------------------------ ReturnCalculator
\* A result of the calculator: the float (end_price / start_price) - 1, kept
\* as its two operands, or None. NotAvailable is the "N/A" of the report.
Return(end_price, start_price) ==
    [kind |-> "float", end_price |-> end_price, start_price |-> start_price]

NoReturn == [kind |-> "None", end_price |-> 0, start_price |-> 0]

NotAvailable == [kind |-> "N/A", end_price |-> 0, start_price |-> 0]

\* prices[prices != 0].first_valid_index(): the position of the first price
\* that is neither 0 nor NaN, 0 when there is none.
FirstNonZero(prices) ==
    LET real == {i \in DOMAIN prices : prices[i].price # 0 /\ prices[i].price # NaN}
    IN  IF real = {} THEN 0 ELSE Min(real)

\* The Series of one ticker: the column of a frame, indexed by Date.
Column(df, ticker) ==
    [i \in DOMAIN df.rows |->
        [Date |-> df.rows[i].Date, price |-> df.rows[i].v[ticker]]]

\* prices.sort_index()
sort_index(prices) == SortRows(prices)

\* (end_price / start_price) - 1, None when start_price == 0.
Quotient(end_price, start_price) ==
    IF start_price = 0 THEN NoReturn ELSE Return(end_price, start_price)

\* The calculator with the base of a calendar-offset period taken at the
\* boundary itself instead of one observation before it.
calculate_return_boundary_price(unsorted, period_label) ==
    IF unsorted = <<>> THEN NoReturn
    ELSE
    LET prices    == sort_index(unsorted)
        end_date  == prices[Len(prices)].Date
        end_price == prices[Len(prices)].price
    IN  IF period_label = "max"
        THEN LET first_non_zero_index == FirstNonZero(prices)
             IN  IF first_non_zero_index = 0 THEN NoReturn
                 ELSE Quotient(end_price, prices[first_non_zero_index].price)
        ELSE IF period_label = "ytd"
        THEN LET start_of_current_year == DayOf(CivilOf(end_date).y, 1, 1)
                 previous == {i \in DOMAIN prices : prices[i].Date < start_of_current_year}
                 current  == {i \in DOMAIN prices : prices[i].Date >= start_of_current_year}
             IN  IF previous = {}
                 THEN IF current = {} THEN NoReturn
                      ELSE Quotient(end_price, prices[Min(current)].price)
                 ELSE Quotient(end_price, prices[Max(previous)].price)
        ELSE IF OffsetOf(period_label) = <<>> THEN NoReturn
        ELSE LET target_start_date == MinusOffset(end_date, OffsetOf(period_label))
                 start_date_series == {i \in DOMAIN prices :
                                          prices[i].Date <= target_start_date}
             IN  IF start_date_series = {} THEN NoReturn
                 ELSE IF prices[Max(start_date_series)].Date = prices[1].Date
                 THEN Quotient(end_price, prices[Max(start_date_series)].price)
                 ELSE LET closest_date_index ==
                              Min({i \in DOMAIN prices :
                                     prices[i].Date = prices[Max(start_date_series)].Date})
                      IN  Quotient(end_price, prices[closest_date_index].price)

\* The calculator with the ytd base taken at the first observation of the
\* current year even when the previous year has observations.
calculate_return_ytd_current_year(unsorted, period_label) ==
    IF unsorted = <<>> THEN NoReturn
    ELSE
    LET prices    == sort_index(unsorted)
        end_date  == prices[Len(prices)].Date
        end_price == prices[Len(prices)].price
    IN  IF period_label = "max"
        THEN LET first_non_zero_index == FirstNonZero(prices)
             IN  IF first_non_zero_index = 0 THEN NoReturn
                 ELSE Quotient(end_price, prices[first_non_zero_index].price)
        ELSE IF period_label = "ytd"
        THEN LET start_of_current_year == DayOf(CivilOf(end_date).y, 1, 1)
                 previous == {i \in DOMAIN prices : prices[i].Date < start_of_current_year}
                 current  == {i \in DOMAIN prices : prices[i].Date >= start_of_current_year}
             IN  IF previous = {}
                 THEN IF current = {} THEN NoReturn
                      ELSE Quotient(end_price, prices[Min(current)].price)
                 ELSE Quotient(end_price, prices[Min(current)].price)
        ELSE IF OffsetOf(period_label) = <<>> THEN NoReturn
        ELSE LET target_start_date == MinusOffset(end_date, OffsetOf(period_label))
                 start_date_series == {i \in DOMAIN prices :
                                          prices[i].Date <= target_start_date}
             IN  IF start_date_series = {} THEN NoReturn
                 ELSE IF prices[Max(start_date_series)].Date = prices[1].Date
                 THEN Quotient(end_price, prices[Max(start_date_series)].price)
                 ELSE LET closest_date_index ==
                              Min({i \in DOMAIN prices :
                                     prices[i].Date = prices[Max(start_date_series)].Date})
                      IN  Quotient(end_price, prices[closest_date_index - 1].price)

\* calculate_individual_fund_period_return(prices, period_label)
calculate_individual_fund_period_return(unsorted, period_label) ==
    IF unsorted = <<>> THEN NoReturn
    ELSE
    LET prices    == sort_index(unsorted)
        end_date  == prices[Len(prices)].Date
        end_price == prices[Len(prices)].price
    IN  IF period_label = "max"
        THEN LET first_non_zero_index == FirstNonZero(prices)
             IN  IF first_non_zero_index = 0 THEN NoReturn
                 ELSE Quotient(end_price, prices[first_non_zero_index].price)
        ELSE IF period_label = "ytd"
        THEN LET start_of_current_year == DayOf(CivilOf(end_date).y, 1, 1)
                 previous == {i \in DOMAIN prices : prices[i].Date < start_of_current_year}
                 current  == {i \in DOMAIN prices : prices[i].Date >= start_of_current_year}
             IN  IF previous = {}
                 THEN IF current = {} THEN NoReturn
                      ELSE Quotient(end_price, prices[Min(current)].price)
                 ELSE Quotient(end_price, prices[Max(previous)].price)
        ELSE IF OffsetOf(period_label) = <<>> THEN NoReturn
        ELSE LET target_start_date == MinusOffset(end_date, OffsetOf(period_label))
                 start_date_series == {i \in DOMAIN prices :
                                          prices[i].Date <= target_start_date}
             IN  IF start_date_series = {} THEN NoReturn
                 ELSE IF prices[Max(start_date_series)].Date = prices[1].Date
                 THEN Quotient(end_price, prices[Max(start_date_series)].price)
                 ELSE LET closest_date_index ==
                              Min({i \in DOMAIN prices :
                                     prices[i].Date = prices[Max(start_date_series)].Date})
                      IN  Quotient(end_price, prices[closest_date_index - 1].price)

\* ---------------------------------------------------------- ReturnsReport
PERIODS == <<"1w", "1mo", "3mo", "6mo", "ytd", "1y", "2y", "3y", "5y", "10y", "max">>

\* earliest_date.strftime('%#m/%#d/%Y'): month/day/year without padding.
strftime(n) == <<CivilOf(n).m, CivilOf(n).d, CivilOf(n).y>>

\* The "N/A" of the Inception column (a date that is no date).
NoInception == <<0, 0, 0>>

\* One row of the returns frame for a ticker of filtered_ticker_list.
ReturnsRow(combined_data, ticker) ==
    IF ticker \in Range(combined_data.cols)
    THEN LET fund_prices == Column(combined_data, ticker)
             first_non_zero_index == FirstNonZero(fund_prices)
         IN  [Symbol |-> ticker,
              Inception |-> IF first_non_zero_index # 0
                            THEN strftime(fund_prices[first_non_zero_index].Date)
                            ELSE NoInception,
              returns |-> [period \in Range(PERIODS) |->
                  LET ret == calculate_individual_fund_period_return(fund_prices, period)
                  IN  IF ret # NoReturn THEN ret ELSE NotAvailable]]
    ELSE [Symbol |-> ticker,
          Inception |-> NoInception,
          returns |-> [period \in Range(PERIODS) |-> NotAvailable]]

\* get_historical_returns looping over ticker_list in the place of
\* filtered_ticker_list.
get_historical_returns_unfiltered(file, ticker_list, ticker_types, load_types) ==
    LET filtered_ticker_list == NonMoneyMarket(ticker_list, ticker_types)
        historical_data_df == load_historical_data(file, filtered_ticker_list, load_types)
    IN  IF filtered_ticker_list = <<>> THEN <<>>
        ELSE IF IsEmpty(historical_data_df) THEN <<>>
        ELSE [i \in DOMAIN ticker_list |->
                 ReturnsRow(historical_data_df, ticker_list[i])]

\* The rows of the frame get_historical_returns(ticker_list) returns for the
\* CSV file `file`, with ticker_types the answer of its own quoteType lookup
\* and load_types that of the lookup load_historical_data makes.
get_historical_returns(file, ticker_list, ticker_types, load_types) ==
    LET filtered_ticker_list == NonMoneyMarket(ticker_list, ticker_types)
        historical_data_df == load_historical_data(file, filtered_ticker_list, load_types)
    IN  IF filtered_ticker_list = <<>> THEN <<>>
        ELSE IF IsEmpty(historical_data_df) THEN <<>>
        ELSE [i \in DOMAIN filtered_ticker_list |->
                 ReturnsRow(historical_data_df, filtered_ticker_list[i])]

\* ----------------------------------------------------------------- state
VARIABLES
    csv,        \* data/historical_fund_data.csv: [exists, frame]
    today,      \* datetime.now().date()
    inclusive,  \* whether the quote source reads a request's `end` as inclusive
    run,        \* what the last update_historical_data call did
    report,     \* what the last get_historical_returns call was given and returned
    calc        \* the last calculate_individual_fund_period_return call

vars == <<csv, today, inclusive, run, report, calc>>

NoFile == [exists |-> FALSE, frame |-> EmptyFrame]

NoRun ==
    [called |-> FALSE, force |-> FALSE, today |-> 0, exempt |-> {},
     filtered |-> <<>>, before |-> NoFile, existing |-> EmptyFrame,
     plan |-> <<>>, fetched |-> <<>>, saved |-> FALSE]

NoReport ==
    [called |-> FALSE, ticker_list |-> <<>>, ticker_types |-> <<>>,
     loaded |-> EmptyFrame, rows |-> <<>>]

\* No call of the calculator yet, prices the Series it will be given.
NoCalc(prices) ==
    [called |-> FALSE, prices |-> prices, period_label |-> "", result |-> NoReturn]

Init ==
    /\ csv = NoFile
    /\ today = 1
    /\ inclusive \in BOOLEAN
    /\ run = NoRun
    /\ report = NoReport
    /\ calc = NoCalc(<<>>)

\* update_historical_data(tickers, force_update), with ticker_types the
\* answer of its own quoteType lookup and load_types that of the lookup
\* load_historical_data makes for the columns of the file.
update_historical_data(force_update, ticker_types, load_types) ==
    LET filtered_tickers == NonMoneyMarket(tickers, ticker_types)
        existing_data == load_historical_data(csv, filtered_tickers, load_types)
        plan == [t \in Range(filtered_tickers) |->
                    PlanFor(ticker_types[t], LastDate(existing_data, t), today,
                            force_update)]
        record == [called |-> TRUE, force |-> force_update, today |-> today,
                   exempt |-> Range(tickers) \ Range(filtered_tickers),
                   filtered |-> filtered_tickers, before |-> csv,
                   existing |-> existing_data, plan |-> plan,
                   fetched |-> <<>>, saved |-> FALSE]
    IN  IF filtered_tickers = <<>>
        THEN /\ run' = [record EXCEPT !.existing = EmptyFrame]
             /\ UNCHANGED <<csv, today, inclusive, report, calc>>
        ELSE \E fetched \in Fetched(filtered_tickers, plan, Len(filtered_tickers),
                                    inclusive) :
                /\ run' = [record EXCEPT !.fetched = fetched,
                                         !.saved = (DOMAIN fetched # {})]
                /\ csv' = IF DOMAIN fetched # {}
                          THEN [exists |-> TRUE,
                                frame |-> Combined(existing_data, filtered_tickers,
                                                   fetched)]
                          ELSE csv
                /\ UNCHANGED <<today, inclusive, report, calc>>

Update ==
    \E force_update \in BOOLEAN :
    \E ticker_types \in TickerTypes(Range(tickers)) :
    \E load_types \in TickerTypes(Range(csv.frame.cols)) :
        update_historical_data(force_update, ticker_types, load_types)

\* Midnight passes.
NextDay ==
    /\ today < MaxDay
    /\ today' = today + 1
    /\ UNCHANGED <<csv, inclusive, run, report, calc>>

Next == Update \/ NextDay

Spec == Init /\ [][Next]_vars

\* ------------------------------------------- the report over written files
\* The days the files of the report's specification hold closes for.
ReportDays == {DayOf(2023, 1, 3), DayOf(2023, 6, 1), DayOf(2024, 1, 2)}

\* The ticker lists the report is asked for.
RequestLists == {<<"A", "B", "M">>, <<"M", "C", "A">>, <<"M">>}

\* The Series a first update run can have fetched: for each ticker of S,
\* closes on some of the ReportDays.
SeriesOver(S) ==
    {[t \in S |-> [d \in D[t] |-> Close(t, d)]] :
        D \in [S -> SUBSET ReportDays \ {{}}]}

\* The files a first update_historical_data(tickers) run writes when the
\* fetches for the tickers of S return such Series; and no file at all.
WrittenFiles ==
    {NoFile} \cup
    {[exists |-> TRUE, frame |-> Combined(EmptyFrame, tickers, fetched)] :
        fetched \in UNION {SeriesOver(S) : S \in SUBSET Range(tickers) \ {{}}}}

InitReport ==
    /\ csv \in WrittenFiles
    /\ today = 1
    /\ inclusive = TRUE
    /\ run = NoRun
    /\ report = NoReport
    /\ calc = NoCalc(<<>>)

Report ==
    \E ticker_list \in RequestLists :
    \E ticker_types \in TickerTypes(Range(ticker_list)) :
    \E load_types \in TickerTypes(Range(csv.frame.cols)) :
        /\ report' =
             [called |-> TRUE, ticker_list |-> ticker_list,
              ticker_types |-> ticker_types,
              loaded |-> load_historical_data(
                             csv, NonMoneyMarket(ticker_list, ticker_types), load_types),
              rows |-> get_historical_returns(csv, ticker_list, ticker_types, load_types)]
        /\ UNCHANGED <<csv, today, inclusive, run, calc>>

NextReport == Report

ReturnsSpec == InitReport /\ [][NextReport]_vars

\* ------------------------------------------- the calculator over a Series
\* The most observations a Series given to the calculator holds.
MaxLen == 3

\* The dates the Series hold observations for.
CalcDays ==
    {DayOf(2022, 12, 30), DayOf(2023, 1, 3), DayOf(2023, 6, 1),
     DayOf(2023, 12, 26), DayOf(2023, 12, 31), DayOf(2024, 1, 2)}

\* The close of the fund on each of the days.
CalcClose(d) ==
    CASE d = DayOf(2022, 12, 30) -> 90
      [] d = DayOf(2023, 1, 3)   -> 100
      [] d = DayOf(2023, 6, 1)   -> 150
      [] d = DayOf(2023, 12, 26) -> 155
      [] d = DayOf(2023, 12, 31) -> 158
      [] OTHER                   -> 160

\* The values a cell of the Series can hold on day d: the close, the 0.0 of a
\* missing cell after load, NaN, or a negative price.
CalcValues(d) == {CalcClose(d), 0, NaN, 0 - 5}

\* The Series the calculator is given: at most MaxLen observations on
\* CalcDays, ascending by date (load_historical_data sorts the frame).
CalcSeries ==
    UNION {{[i \in DOMAIN SortedIndex(D) |->
                [Date |-> SortedIndex(D)[i], price |-> f[SortedIndex(D)[i]]]] :
              f \in {g \in [D -> UNION {CalcValues(d) : d \in D}] :
                        \A d \in D : g[d] \in CalcValues(d)}} :
           D \in {E \in SUBSET CalcDays : Cardinality(E) <= MaxLen}}

\* The period labels the calculator is called with: those of the report and
\* one that is none of them.
CalcLabels == Range(PERIODS) \cup {"1d"}

InitCalc ==
    /\ csv = NoFile
    /\ today = 1
    /\ inclusive = TRUE
    /\ run = NoRun
    /\ report = NoReport
    /\ calc \in {NoCalc(prices) : prices \in CalcSeries}

Calculate ==
    \E period_label \in CalcLabels :
        /\ calc' = [called |-> TRUE, prices |-> calc.prices,
                    period_label |-> period_label,
                    result |-> calculate_individual_fund_period_return(
                                   calc.prices, period_label)]
        /\ UNCHANGED <<csv, today, inclusive, run, report>>

NextCalc == Calculate

CalcSpec == InitCalc /\ [][NextCalc]_vars

\* ================================================================ claims
\* A cell holding a real observation: neither NaN nor the 0.0 that
\* load_historical_data puts in the place of a missing value.
IsReal(x) == x # NaN /\ x # 0

\* The latest date at which the ticker has a real observation in the frame,
\* None when it has none (or no column).
OwnLastDate(df, ticker) ==
    LET real == {d \in Dates(df) : IsReal(Cell(df, d, ticker))}
    IN  IF real = {} THEN None ELSE Max(real)

\* The dates of all the Series a run fetched.
FetchedDates(r) == UNION {DOMAIN r.fetched[t] : t \in DOMAIN r.fetched}

\* The tickers a run asked the quote source for and got nothing.
Missed(r) ==
    {t \in DOMAIN r.plan : IsRequest(r.plan[t]) /\ t \notin DOMAIN r.fetched}

\* C1: in update_historical_data the plan of every non-exempt requested
\* ticker is made from the ticker's own latest date with a non-missing
\* observation in the loaded store, and a ticker whose column holds no
\* non-missing observation gets a full-history fetch.
C1_PlanFromOwnLastDate ==
    run.called =>
        \A t \in Range(run.filtered) :
            LET own == OwnLastDate(run.existing, t)
            IN  IF own = None THEN run.plan[t].kind = "full"
                ELSE run.plan[t] = PlanFor("ETF", own, run.today, run.force)

\* C2: the table a run writes is the per-cell merge over the union of the
\* dates of the loaded table and of the fetched Series: the fetched value
\* where the fetch supplied one, else the loaded value, else missing; a
\* ticker for which nothing was fetched keeps every loaded value.
C2_MergePerCell ==
    run.saved =>
        /\ Dates(csv.frame) = Dates(run.existing) \cup FetchedDates(run)
        /\ \A d \in Dates(csv.frame) : \A t \in Range(run.filtered) :
              Cell(csv.frame, d, t) =
                 IF t \in DOMAIN run.fetched /\ d \in DOMAIN run.fetched[t]
                 THEN run.fetched[t][d]
                 ELSE IF d \in Dates(run.existing) /\ t \in Range(run.existing.cols)
                 THEN Cell(run.existing, d, t)
                 ELSE NaN
        /\ \A t \in Range(run.existing.cols) \ DOMAIN run.fetched :
              \A d \in Dates(run.existing) :
                 Cell(csv.frame, d, t) = Cell(run.existing, d, t)

\* A run merged Series into a loaded table: a fetched date the table already
\* had, a ticker with real values and nothing fetched, and a cell left missing.
C2_Witness ==
    /\ run.saved
    /\ Dates(run.existing) \cap FetchedDates(run) # {}
    /\ \E t \in Range(run.existing.cols) \ DOMAIN run.fetched :
          \E d \in Dates(run.existing) :
             IsReal(Cell(run.existing, d, t)) /\ IsReal(Cell(csv.frame, d, t))
    /\ \E t \in Range(run.filtered) : \E d \in Dates(csv.frame) :
          Cell(csv.frame, d, t) = NaN

\* C3: a ticker whose fetch obtained nothing in one run is, in the next run,
\* scheduled for a fetch that covers what was not obtained: full history if
\* it has no real observation, else from its own last real date + 1.
C3_MissedFetchRetried ==
    [][(today' = today /\ run.called) =>
          \A t \in Missed(run) \cap Range(run'.filtered) :
             LET own == OwnLastDate(run'.existing, t)
             IN  IF own = None THEN run'.plan[t].kind = "full"
                 ELSE /\ run'.plan[t].kind = "incremental"
                      /\ run'.plan[t].start = own + 1]_vars

\* C4: a non-exempt ticker whose last cached date is N > 1 days before today
\* is asked for exactly [lastDate + 1, yesterday]; no fetch is issued when
\* lastDate + 1 is later than yesterday.
C4_IncrementalRange ==
    run.called =>
        \A t \in Range(run.filtered) :
            LET own == OwnLastDate(run.existing, t)
            IN  /\ (own # None /\ run.today - own > 1) =>
                      run.plan[t] = [kind |-> "incremental", start |-> own + 1,
                                     end |-> run.today - 1]
                /\ (own # None /\ own + 1 > run.today - 1) => ~IsRequest(run.plan[t])

\* C5: with force_update false, no fetch is issued for a ticker whose last
\* cached date is today or yesterday.
C5_FreshIsSkipped ==
    (run.called /\ ~run.force) =>
        \A t \in Range(tickers) :
            LET own == OwnLastDate(run.existing, t)
            IN  (own # None /\ run.today - own <= 1) =>
                    (t \in DOMAIN run.plan => ~IsRequest(run.plan[t]))

\* An unforced run met a ticker whose last real observation is yesterday's,
\* in a table that begins two days or more before today.
C5_Witness ==
    /\ run.called /\ ~run.force
    /\ \E t \in Range(run.filtered) :
          /\ OwnLastDate(run.existing, t) = run.today - 1
          /\ \E d \in Dates(run.existing) : run.today - d > 1
          /\ run.plan[t].kind = "fresh"

\* C6: every fetch request of a run, incremental or full-history, forced or
\* not, has its end bound at yesterday (today - 1).
C6_EndIsYesterday ==
    run.called =>
        \A t \in DOMAIN run.plan :
            IsRequest(run.plan[t]) => run.plan[t].end = run.today - 1

\* C7: a ticker a run classifies as MONEYMARKET is not passed to the quote
\* source in that run, and its column in the table the run writes holds no
\* real observation.
C7_ExemptNeverFetched ==
    run.called =>
        \A t \in run.exempt :
            /\ t \notin DOMAIN run.plan \/ ~IsRequest(run.plan[t])
            /\ t \notin DOMAIN run.fetched
            /\ run.saved =>
                  \A d \in Dates(csv.frame) : ~IsReal(Cell(csv.frame, d, t))

\* A run that wrote the table classified as MONEYMARKET a ticker for which
\* the file held real observations (fetched by a run whose lookup had failed).
C7_Witness ==
    /\ run.saved
    /\ \E t \in run.exempt : \E d \in Dates(run.before.frame) :
          IsReal(Cell(run.before.frame, d, t))

\* A row of the report whose every period and Inception is "N/A".
AllNotAvailable(row) ==
    /\ row.Inception = NoInception
    /\ \A period \in Range(PERIODS) : row.returns[period] = NotAvailable

\* The requested tickers the report's own lookup did not call MONEYMARKET.
Eligible(r) ==
    SelectSeq(r.ticker_list, LAMBDA t : r.ticker_types[t] # "MONEYMARKET")

\* C8 as claimed: get_historical_returns returns one record per requested
\* ticker, in the caller's order; a ticker classified MONEYMARKET, absent from
\* the store, or requested while the store is empty has a row of "N/A".
C8_RowPerRequestedTicker ==
    report.called =>
        /\ Len(report.rows) = Len(report.ticker_list)
        /\ \A i \in DOMAIN report.rows :
              /\ report.rows[i].Symbol = report.ticker_list[i]
              /\ (\/ report.ticker_types[report.ticker_list[i]] = "MONEYMARKET"
                  \/ report.ticker_list[i] \notin Range(report.loaded.cols)
                  \/ IsEmpty(report.loaded)) => AllNotAvailable(report.rows[i])

\* C8 as amended: one record per requested ticker not classified
\* MONEYMARKET, in the caller's order, a ticker absent from the loaded store
\* with a row of "N/A"; no rows at all when every requested ticker is
\* MONEYMARKET or the loaded store is empty.
C8_RowPerEligibleTicker ==
    report.called =>
        IF Eligible(report) = <<>> \/ IsEmpty(report.loaded)
        THEN report.rows = <<>>
        ELSE /\ Len(report.rows) = Len(Eligible(report))
             /\ \A i \in DOMAIN report.rows :
                   /\ report.rows[i].Symbol = Eligible(report)[i]
                   /\ report.rows[i].Symbol \notin Range(report.loaded.cols)
                         => AllNotAvailable(report.rows[i])

\* A report asked for a MONEYMARKET ticker first, which it omits, and for a
\* ticker the loaded store has no column for, which gets a row of "N/A"
\* beside a ticker with a real return.
C8_Witness ==
    /\ report.called
    /\ Len(report.ticker_list) = 3
    /\ report.ticker_types[report.ticker_list[1]] = "MONEYMARKET"
    /\ Len(report.rows) = 2
    /\ \E i \in DOMAIN report.rows :
          report.rows[i].Symbol \notin Range(report.loaded.cols)
    /\ \E i \in DOMAIN report.rows : report.rows[i].returns["max"].kind = "float"

\* C9: a run over an existing file only grows the table: every date of the
\* file is kept, and a real observation of a requested ticker that is no
\* MONEYMARKET fund stays, or is replaced by the value fetched for its cell;
\* a run that writes nothing leaves the file as it was.
C9_TableOnlyGrows ==
    run.called =>
        IF run.saved
        THEN /\ Dates(run.before.frame) \subseteq Dates(csv.frame)
             /\ \A t \in Range(tickers) : \A d \in Dates(run.before.frame) :
                   (quoteType[t] # "MONEYMARKET" /\ IsReal(Cell(run.before.frame, d, t)))
                   => \/ Cell(csv.frame, d, t) = Cell(run.before.frame, d, t)
                      \/ /\ t \in DOMAIN run.fetched
                         /\ d \in DOMAIN run.fetched[t]
                         /\ Cell(csv.frame, d, t) = run.fetched[t][d]
        ELSE csv = run.before

\* A run wrote new dates into a file that already held real observations.
C9_Witness ==
    /\ run.saved
    /\ run.before.exists
    /\ \E t \in Range(tickers) : \E d \in Dates(run.before.frame) :
          quoteType[t] # "MONEYMARKET" /\ IsReal(Cell(run.before.frame, d, t))
    /\ Dates(csv.frame) \ Dates(run.before.frame) # {}

\* C10: the rows of every table update_historical_data writes are strictly
\* increasing by date, no date twice.
C10_DatesStrictlyIncreasing ==
    csv.exists =>
        \A i \in 1 .. Len(csv.frame.rows) - 1 :
            csv.frame.rows[i].Date < csv.frame.rows[i + 1].Date

\* A run merged Series that share dates with the loaded table and bring new ones.
C10_Witness ==
    /\ run.saved
    /\ Dates(run.existing) \cap FetchedDates(run) # {}
    /\ FetchedDates(run) \ Dates(run.existing) # {}
    /\ Len(csv.frame.rows) > 1

\* A cell that holds an observation: not the 0.0 a missing cell is stored as.
IsObservation(row) == row.price # 0 /\ row.price # NaN

\* The Series without its missing cells.
Observations(prices) == SelectSeq(prices, IsObservation)

\* The Series as load_historical_data hands it over: no NaN left in it.
Loaded(prices) == \A i \in DOMAIN prices : prices[i].price # NaN

\* C11: the calculator excludes missing cells (0.0 after load) from every
\* lookup: on a loaded Series it returns what it returns on the Series
\* without its missing cells, so the end price and the anchor date are those
\* of the latest real observation and the base lookups skip missing cells.
C11_MissingCellsExcluded ==
    (calc.called /\ Loaded(calc.prices)) =>
        calc.result =
            calculate_individual_fund_period_return(
                Observations(calc.prices), calc.period_label)

\* C12: for every period label the calculator returns a number only from a
\* base price that is present and positive; a missing, zero or negative base
\* gives None.
C12_NoneOnNonPositiveBase ==
    (calc.called /\ calc.result.kind = "float") =>
        /\ calc.result.start_price # NaN
        /\ calc.result.start_price > 0

\* C13: a forced run makes a fetch request for every non-exempt ticker that
\* has an observation in the loaded table, however recent its last date is.
C13_ForceAlwaysFetches ==
    (run.called /\ run.force) =>
        \A t \in Range(run.filtered) :
            OwnLastDate(run.existing, t) # None => IsRequest(run.plan[t])

\* The anchor of a Series: the date of its last observation.
Anchor(prices) == prices[Len(prices)].Date

\* The end of a Series: the price of its last observation.
EndPrice(prices) == prices[Len(prices)].price

\* end/base - 1, for a base that is not zero.
ReturnFrom(prices, base) == IF base = 0 THEN NoReturn ELSE Return(EndPrice(prices), base)

\* The positions of the observations on or before the target of the period.
OnOrBefore(prices, period_label) ==
    {i \in DOMAIN prices :
        prices[i].Date <= MinusOffset(Anchor(prices), OffsetOf(period_label))}

\* C14: for a calendar-offset period the result is None when no observation
\* lies on or before target = anchor - offset; otherwise, with the boundary
\* the latest such observation, the base is the boundary's price when the
\* boundary is the first observation of the Series and the price of the
\* observation just before the boundary when it is not, and the result is
\* end/base - 1 (None for a zero base).
C14_OffsetBaseOneBeforeBoundary ==
    (calc.called /\ calc.prices # <<>> /\ OffsetOf(calc.period_label) # <<>>) =>
        LET before == OnOrBefore(calc.prices, calc.period_label)
        IN  IF before = {} THEN calc.result = NoReturn
            ELSE LET boundary == Max(before)
                     base     == IF boundary = 1 THEN calc.prices[boundary].price
                                 ELSE calc.prices[boundary - 1].price
                 IN  calc.result = ReturnFrom(calc.prices, base)

\* The six-month return of the Series 2022-12-30: 90, 2023-06-01: 150,
\* 2024-01-02: 160: the target is 2023-07-02, the boundary 2023-06-01 is not
\* the first observation, and the base is the 90 of the observation before it.
C14_Witness ==
    /\ calc.called /\ calc.period_label = "6mo"
    /\ calc.prices = <<[Date |-> DayOf(2022, 12, 30), price |-> 90],
                       [Date |-> DayOf(2023, 6, 1), price |-> 150],
                       [Date |-> DayOf(2024, 1, 2), price |-> 160]>>
    /\ Max(OnOrBefore(calc.prices, calc.period_label)) = 2
    /\ calc.result = Return(160, 90)

\* C15: for ytd the base is the latest observation strictly before January 1
\* of the anchor's year, and the earliest observation on or after that
\* January 1 only when there is none before; the result is end/base - 1
\* (None for a zero base).
C15_YtdBaseBeforeNewYear ==
    (calc.called /\ calc.prices # <<>> /\ calc.period_label = "ytd") =>
        LET new_year == DayOf(CivilOf(Anchor(calc.prices)).y, 1, 1)
            before   == {i \in DOMAIN calc.prices : calc.prices[i].Date < new_year}
            since    == {i \in DOMAIN calc.prices : calc.prices[i].Date >= new_year}
            base     == IF before # {} THEN calc.prices[Max(before)].price
                        ELSE calc.prices[Min(since)].price
        IN  calc.result = ReturnFrom(calc.prices, base)

\* The Series 2023-01-03: 100, 2023-06-01: 150, 2024-01-02: 160 gave the ytd
\* return 160/150 - 1.
C15_Witness ==
    /\ calc.called /\ calc.period_label = "ytd"
    /\ calc.prices = <<[Date |-> DayOf(2023, 1, 3), price |-> 100],
                       [Date |-> DayOf(2023, 6, 1), price |-> 150],
                       [Date |-> DayOf(2024, 1, 2), price |-> 160]>>
    /\ calc.result = Return(160, 150)
====
